---- MODULE Spec2Model ----
(***************************************************************************)
(* Model of the Spotify Listening Insight Dashboard (src/app.py).          *)
(*                                                                         *)
(* The dashboard is one linear script.  The model follows it block by      *)
(* block: authentication, the sidebar selection, the four fetch_tracks     *)
(* calls of "Load Data", the chart tabs, the diversity score, the playlist *)
(* builder, the clustering chart and the Hidden Gems table.  The external  *)
(* services (Spotify, Last.fm, langdetect, scikit-learn) are the           *)
(* environment: every call into them has its outcome chosen among the      *)
(* outcomes that call can have.                                            *)
(***************************************************************************)
EXTENDS Integers, Sequences, FiniteSets, TLC

VARIABLES
    pc,            \* position of the script run
    time_range,    \* sidebar selection (app.py:123)
    calls,         \* the fetch_tracks invocations of this run, in order
    df_short,      \* app.py:184
    df_medium,     \* app.py:185
    df_long,       \* app.py:186
    df,            \* app.py:189
    errors,        \* st.error messages shown in this run
    warnings,      \* st.warning messages shown in this run
    rendered,      \* the widgets / tables this run has produced
    shown,         \* <<the number the diversity metric shows>>, <<>> until computed
    hidden,        \* <<the Hidden Gems table>>, <<>> until computed
    uncaught,      \* the exception that ended the run, None if there is none
    session,       \* st.session_state
    button,        \* does st.button report a click in this run
    api,           \* Spotify calls issued by the playlist builder, over the session
    runs,          \* script reruns of the session so far
    resp,          \* API behaviour handed to the fetch_tracks call under study
    ret,           \* what that fetch_tracks call gave back
    bio,           \* Last.fm outcome handed to get_artist_country_lastfm
    countries      \* the results of the calls of get_artist_country_lastfm

vars == <<pc, time_range, calls, df_short, df_medium, df_long, df, errors,
          warnings, rendered, shown, hidden, uncaught, session, button, api,
          runs, resp, ret, bio, countries>>

None == "None"

(***************************************************************************)
(* Bounds of the model.                                                    *)
(***************************************************************************)
MaxBio == 4          \* longest biography text
MaxTracks == 2       \* longest top-tracks response of a studied fetch call
MaxLoadRows == 3     \* longest top-tracks response during a dashboard load
MaxScoreRows == 3    \* longest dataset handed to the diversity score
MaxResolverCalls == 2
MaxRuns == 2         \* most reruns of the script in one session

(***************************************************************************)
(* Text.  A text is a sequence of one-character strings.                   *)
(***************************************************************************)
Chars == {"a", "b", "A", "B"}

\* str.lower() on one character
LowerChar(c) ==
    CASE c = "A" -> "a"
      [] c = "B" -> "b"
      [] OTHER -> c

\* str.lower()
Lower(s) == [i \in 1..Len(s) |-> LowerChar(s[i])]

\* the Python test  needle in hay  on two texts
Contains(hay, needle) ==
    \E off \in 0..(Len(hay) - Len(needle)) :
        \A k \in 1..Len(needle) : hay[off + k] = needle[k]

\* s[:n]
Take(s, n) == SubSeq(s, 1, IF Len(s) < n THEN Len(s) ELSE n)

RECURSIVE SeqsUpTo(_, _)
\* every text over S of length at most n
SeqsUpTo(S, n) ==
    IF n = 0 THEN {<<>>}
    ELSE LET shorter == SeqsUpTo(S, n - 1)
         IN  shorter \cup {Append(s, c) : s \in {t \in shorter : Len(t) = n - 1}, c \in S}

(***************************************************************************)
(* 5. Helper: Get Artist Country from Last.fm  (app.py:91-109)             *)
(***************************************************************************)
\* [c.name for c in pycountry.countries]: the canonical list, in its order.
\* The second name occurs inside texts that also hold the first one later
\* on, and the third name holds the fourth.
CountryNames == << <<"A", "b">>, <<"B", "a">>, <<"B", "b">>, <<"B", "b", "a">> >>

\* What requests.get(url).json() and the three .get() give for one artist:
\*   error    the request or the JSON decoding raises
\*   shape    "artist" or "bio" is present but is not a mapping
\*   missing  a key is absent, so the default "" is the biography
\*   null     "content" is present but is not a string
\*   text     a biography text
BioOutcomes(n) ==
    {[kind |-> k, content |-> <<>>] : k \in {"error", "shape", "missing", "null"}}
    \cup {[kind |-> "text", content |-> t] : t \in SeqsUpTo(Chars, n)}

\* the offsets at which name occurs in text, both lowered
Offsets(text, name) ==
    {off \in 0..(Len(text) - Len(name)) :
        \A k \in 1..Len(name) : LowerChar(text[off + k]) = LowerChar(name[k])}

\* A scan that returns the country matched first by position in the text
ScanCountriesByPosition(text, i) ==
    LET found == {j \in i..Len(CountryNames) : Offsets(text, CountryNames[j]) # {}}
        first(j) == CHOOSE o \in Offsets(text, CountryNames[j]) :
                        \A o2 \in Offsets(text, CountryNames[j]) : o <= o2
    IN  IF found = {} THEN "Unknown"
        ELSE CountryNames[CHOOSE j \in found :
                \A j2 \in found : first(j) < first(j2) \/ (first(j) = first(j2) /\ j <= j2)]

RECURSIVE ScanCountries(_, _)
\* for country in [...]: if country.lower() in bio.lower(): return country
ScanCountries(text, i) ==
    IF i > Len(CountryNames) THEN "Unknown"
    ELSE IF Contains(Lower(text), Lower(CountryNames[i])) THEN CountryNames[i]
    ELSE ScanCountries(text, i + 1)

\* get_artist_country_lastfm: result and whether an exception leaves it
get_artist_country_lastfm(b) ==
    IF b.kind \in {"error", "shape", "null"}
        THEN [value |-> "Unknown", raised |-> FALSE]        \* except Exception
    ELSE IF b.kind = "missing"
        THEN [value |-> ScanCountries(<<>>, 1), raised |-> FALSE]
    ELSE [value |-> ScanCountries(b.content, 1), raised |-> FALSE]

(***************************************************************************)
(* 8. Fetch Top Tracks  (app.py:137-179)                                   *)
(***************************************************************************)
Windows == {"short_term", "medium_term", "long_term"}

\* Column labels of the table built at app.py:160-171
Columns == {"Track Name", "Artist", "Album", "Genre", "Language",
            "Duration (min)", "Popularity", "Explicit", "Release Year",
            "Country"}

\* pd.DataFrame(): no rows and no columns
EmptyFrame == [columns |-> {}, rows |-> <<>>]

\* pd.DataFrame(rows) for a list of dicts that all have the ten keys
DataFrame(rows) ==
    [columns |-> IF rows = <<>> THEN {} ELSE Columns, rows |-> rows]

\* df.empty
IsEmpty(d) == d.rows = <<>> \/ d.columns = {}

\* round(duration_ms / 60000, 2), in hundredths of a minute.  The inputs of
\* the model are no ties (duration_ms % 600 # 300), where the rounding of
\* the binary quotient and of the exact one agree.
DurationMin(ms) == (ms + 300) \div 600

\* A language step without its try/except: the failure of detect leaves it
detect_language_unguarded(it, e) ==
    IF e.lang = "error" THEN [exc |-> TRUE, value |-> None]
    ELSE [exc |-> FALSE, value |-> e.lang]

\* try: language = detect(f"{name} {artist}")  except Exception: "unknown"
\* e.lang is what detect does on that text: a language code, or "error"
\* when it raises (LangDetectException on text without features).
detect_language(it, e) ==
    IF e.lang = "error" THEN [exc |-> FALSE, value |-> "unknown"]
    ELSE [exc |-> FALSE, value |-> e.lang]

\* One iteration of the loop at app.py:144-171 on item it, the environment
\* giving e.artist for sp.artist, e.lang for detect and e.bio for Last.fm.
\* Either the row, or the exception that leaves the loop.
EnrichItem(it, e) ==
    IF e.artist.kind = "error"
        THEN [exc |-> TRUE, msg |-> e.artist.msg, row |-> None]   \* sp.artist raises
    ELSE
        LET genres == IF e.artist.kind = "nokey" THEN <<>> ELSE e.artist.genres
            language == detect_language(it, e)
            country == get_artist_country_lastfm(e.bio)
        IN  IF language.exc
                THEN [exc |-> TRUE, msg |-> "detect", row |-> None]
            ELSE IF country.raised
                THEN [exc |-> TRUE, msg |-> "country", row |-> None]
            ELSE [exc |-> FALSE, msg |-> None,
                  row |-> [Track |-> it.name,
                           Artist |-> it.artist,
                           Album |-> it.album,
                           Genre |-> IF genres # <<>> THEN genres[1] ELSE "Unknown",
                           Language |-> language.value,
                           Duration |-> DurationMin(it.duration_ms),
                           Popularity |-> it.popularity,
                           Explicit |-> IF it.explicit THEN "Explicit" ELSE "Clean",
                           ReleaseYear |-> Take(it.release_date, 4),
                           Country |-> country.value]]

RECURSIVE EnrichLoop(_, _, _, _)
\* for item in top_tracks["items"]: ... rows.append({...})
EnrichLoop(items, env, i, rows) ==
    IF i > Len(items) THEN [exc |-> FALSE, msg |-> None, rows |-> rows]
    ELSE LET r == EnrichItem(items[i], env[i])
         IN  IF r.exc THEN [exc |-> TRUE, msg |-> r.msg, rows |-> rows]
             ELSE EnrichLoop(items, env, i + 1, Append(rows, r.row))

\* A handler that swallows the failure: empty table, nothing reported
FetchFailedSilent(msg) ==
    [frame |-> EmptyFrame, errors |-> <<>>, raised |-> FALSE]

\* except Exception as e: st.error(...); return pd.DataFrame()
FetchFailed(msg) ==
    [frame |-> EmptyFrame, errors |-> << <<"Failed to fetch data: ", msg>> >>,
     raised |-> FALSE]

\* fetch_tracks(time_range) against the API behaviour r: the returned table,
\* the st.error messages it shows, and whether an exception leaves it.
fetch_tracks(window, r) ==
    IF r.top = "error" THEN FetchFailed(r.msg)
    ELSE IF r.items = <<>>
        THEN [frame |-> EmptyFrame, errors |-> <<>>, raised |-> FALSE]
    ELSE LET loop == EnrichLoop(r.items, r.env, 1, <<>>)
         IN  IF loop.exc THEN FetchFailed(loop.msg)
             ELSE [frame |-> DataFrame(loop.rows), errors |-> <<>>, raised |-> FALSE]

(***************************************************************************)
(* The environment of one fetch_tracks call.                               *)
(***************************************************************************)
Date2019 == <<"2", "0", "1", "9", "-", "0", "5", "-", "1", "7">>
Date2020 == <<"2", "0", "2", "0">>

\* items of a top-tracks response (the fields the script reads)
ItemA == [name |-> "Song A", artist |-> "Artist A", album |-> "Album A",
          duration_ms |-> 180000, popularity |-> 35, explicit |-> FALSE,
          release_date |-> Date2019]
ItemB == [name |-> "Song B", artist |-> "Artist B", album |-> "Album B",
          duration_ms |-> 215000, popularity |-> 80, explicit |-> TRUE,
          release_date |-> Date2020]
FetchItems == {ItemA, ItemB}

\* sp.artist(artist_id): raises, or a mapping without "genres", or with it
ArtistOutcomes ==
    {[kind |-> "error", msg |-> "artist lookup failed", genres |-> <<>>],
     [kind |-> "nokey", msg |-> None, genres |-> <<>>],
     [kind |-> "ok", msg |-> None, genres |-> <<>>],
     [kind |-> "ok", msg |-> None, genres |-> <<"rock", "pop">>]}

LangOutcomes == {"error", "en"}

FetchBios == {[kind |-> "error", content |-> <<>>],
              [kind |-> "text", content |-> <<"b", "A", "b">>]}

\* one item of the response with what the three lookups do for it
Enrichments(items, artists, langs, bios) ==
    {[item |-> it, env |-> [artist |-> a, lang |-> l, bio |-> b]] :
        it \in items, a \in artists, l \in langs, b \in bios}

TopErrors == {"token expired", "rate limited"}

\* sp.current_user_top_tracks(limit=20, ...) raises with message m
TopError(m) == [top |-> "error", msg |-> m, items |-> <<>>, env |-> <<>>]

\* ... or returns the items of p, the enrichment lookups behaving as in p
TopItems(p) ==
    [top |-> "ok", msg |-> None,
     items |-> [i \in 1..Len(p) |-> p[i].item],
     env |-> [i \in 1..Len(p) |-> p[i].env]]

FetchResponses ==
    {TopError(m) : m \in TopErrors}
    \cup {TopItems(p) :
            p \in SeqsUpTo(Enrichments(FetchItems, ArtistOutcomes, LangOutcomes,
                                       FetchBios), MaxTracks)}

NoResp == TopError(None)
NoRet == [frame |-> EmptyFrame, errors |-> <<>>, raised |-> FALSE]
NoBio == [kind |-> "missing", content |-> <<>>]
NoSession == [set |-> FALSE, playlist_created |-> FALSE, playlist_url |-> None]
NoApi == [search |-> 0, create |-> 0, add |-> 0]

\* the variables of the dashboard run, before the script starts
RunStart ==
    /\ time_range = None
    /\ calls = <<>>
    /\ df_short = EmptyFrame
    /\ df_medium = EmptyFrame
    /\ df_long = EmptyFrame
    /\ df = EmptyFrame
    /\ errors = <<>>
    /\ warnings = <<>>
    /\ rendered = {}
    /\ shown = <<>>
    /\ hidden = <<>>
    /\ uncaught = None
    /\ session = NoSession
    /\ button = FALSE
    /\ api = NoApi
    /\ runs = 0

runVars == <<time_range, calls, df_short, df_medium, df_long, df, errors,
             warnings, rendered, shown, hidden, uncaught, session, button, api,
             runs>>

studyVars == <<resp, ret, bio, countries>>

(***************************************************************************)
(* One call of fetch_tracks against every behaviour of the API.            *)
(***************************************************************************)
InitFetch ==
    /\ pc = "fetch_call"
    /\ RunStart
    /\ resp = NoResp
    /\ ret = NoRet
    /\ bio = NoBio
    /\ countries = <<>>

FetchCall ==
    /\ pc = "fetch_call"
    /\ \E w \in Windows, r \in FetchResponses :
        /\ resp' = r
        /\ ret' = fetch_tracks(w, r)
        /\ calls' = Append(calls, [window |-> w, frame |-> fetch_tracks(w, r).frame])
    /\ pc' = "fetch_returned"
    /\ UNCHANGED <<time_range, df_short, df_medium, df_long, df, errors,
                   warnings, rendered, shown, hidden, uncaught, session,
                   button, api, runs, bio, countries>>

NextFetch == FetchCall

SpecFetch == InitFetch /\ [][NextFetch]_vars

(***************************************************************************)
(* Repeated calls of get_artist_country_lastfm on one Last.fm outcome.     *)
(***************************************************************************)
InitCountry ==
    /\ pc = "resolver"
    /\ RunStart
    /\ resp = NoResp
    /\ ret = NoRet
    /\ bio \in BioOutcomes(MaxBio)
    /\ countries = <<>>

ResolveCountry ==
    /\ pc = "resolver"
    /\ Len(countries) < MaxResolverCalls
    /\ countries' = Append(countries, get_artist_country_lastfm(bio))
    /\ UNCHANGED <<pc, runVars, resp, ret, bio>>

NextCountry == ResolveCountry

SpecCountry == InitCountry /\ [][NextCountry]_vars

(***************************************************************************)
(* The dashboard run: sections 4 to 10 of the script.                      *)
(*                                                                         *)
(* A run ends at pc = "done" (the script ran through), "stopped" (st.stop) *)
(* or "crashed" (an exception no handler catches ends the script run;      *)
(* nothing after the raising statement is executed).                       *)
(***************************************************************************)
Terminal == {"done", "stopped", "crashed"}

\* what a dashboard load gets when it asks for a window: the call fails,
\* there are no items, there are 1..MaxLoadRows items, or an artist lookup
\* fails during the enrichment
GoodEnv == [artist |-> [kind |-> "ok", msg |-> None, genres |-> <<"rock", "pop">>],
            lang |-> "en",
            bio |-> [kind |-> "text", content |-> <<"b", "A", "b">>]]
BareEnv == [artist |-> [kind |-> "ok", msg |-> None, genres |-> <<>>],
            lang |-> "error",
            bio |-> [kind |-> "error", content |-> <<>>]]
LostEnv == [artist |-> [kind |-> "error", msg |-> "artist lookup failed", genres |-> <<>>],
            lang |-> "en",
            bio |-> [kind |-> "error", content |-> <<>>]]

LoadBatch(k) ==
    [i \in 1..k |-> IF i % 2 = 1 THEN [item |-> ItemA, env |-> GoodEnv]
                    ELSE [item |-> ItemB, env |-> BareEnv]]

LoadResponses ==
    {TopError("token expired"), TopItems(<<[item |-> ItemA, env |-> LostEnv]>>)}
    \cup {TopItems(LoadBatch(k)) : k \in 0..MaxLoadRows}

InitLoad ==
    /\ pc = "auth"
    /\ RunStart
    /\ resp = NoResp
    /\ ret = NoRet
    /\ bio = NoBio
    /\ countries = <<>>

\* 4. Authenticate and Load User (app.py:70-86)
Authenticate ==
    /\ pc = "auth"
    /\ \E ok \in BOOLEAN :
        IF ok
            THEN /\ pc' = "sidebar"
                 /\ UNCHANGED errors
            ELSE /\ errors' = Append(errors, <<"Authentication failed: ", "token expired">>)
                 /\ pc' = "stopped"
    /\ UNCHANGED <<time_range, calls, df_short, df_medium, df_long, df, warnings,
                   rendered, shown, hidden, uncaught, session, button, api, studyVars, runs>>

\* 7. Sidebar: Time Range Selector (app.py:123-129)
SelectTimeRange ==
    /\ pc = "sidebar"
    /\ time_range' \in Windows
    /\ pc' = "load_short"
    /\ UNCHANGED <<calls, df_short, df_medium, df_long, df, errors, warnings,
                   rendered, shown, hidden, uncaught, session, button, api, studyVars, runs>>

\* the effect of one  x = fetch_tracks(w)  of "Load Data" other than on x
Fetched(w, res, next) ==
    /\ calls' = Append(calls, [window |-> w, frame |-> res.frame])
    /\ errors' = errors \o res.errors
    /\ IF res.raised
        THEN pc' = "crashed" /\ uncaught' = "Exception"
        ELSE pc' = next /\ UNCHANGED uncaught

\* df_short = fetch_tracks("short_term")  (app.py:184)
LoadShort ==
    /\ pc = "load_short"
    /\ \E r \in LoadResponses :
        LET res == fetch_tracks("short_term", r)
        IN  /\ df_short' = res.frame
            /\ Fetched("short_term", res, "load_medium")
    /\ UNCHANGED <<time_range, df_medium, df_long, df, warnings, rendered, shown,
                   hidden, session, button, api, studyVars, runs>>

\* df_medium = fetch_tracks("medium_term")  (app.py:185)
LoadMedium ==
    /\ pc = "load_medium"
    /\ \E r \in LoadResponses :
        LET res == fetch_tracks("medium_term", r)
        IN  /\ df_medium' = res.frame
            /\ Fetched("medium_term", res, "load_long")
    /\ UNCHANGED <<time_range, df_short, df_long, df, warnings, rendered, shown,
                   hidden, session, button, api, studyVars, runs>>

\* df_long = fetch_tracks("long_term")  (app.py:186)
LoadLong ==
    /\ pc = "load_long"
    /\ \E r \in LoadResponses :
        LET res == fetch_tracks("long_term", r)
        IN  /\ df_long' = res.frame
            /\ Fetched("long_term", res, "load_selected")
    /\ UNCHANGED <<time_range, df_short, df_medium, df, warnings, rendered, shown,
                   hidden, session, button, api, studyVars, runs>>

\* A load that reads the selected window from the three tables it has
LoadSelectedCached ==
    /\ pc = "load_selected"
    /\ df' = CASE time_range = "short_term" -> df_short
               [] time_range = "medium_term" -> df_medium
               [] OTHER -> df_long
    /\ pc' = "check_empty"
    /\ UNCHANGED <<time_range, calls, df_short, df_medium, df_long, errors, warnings,
                   rendered, shown, hidden, uncaught, session, button, api, studyVars, runs>>

\* df = fetch_tracks(time_range)  (app.py:189)
LoadSelected ==
    /\ pc = "load_selected"
    /\ \E r \in LoadResponses :
        LET res == fetch_tracks(time_range, r)
        IN  /\ df' = res.frame
            /\ Fetched(time_range, res, "check_empty")
    /\ UNCHANGED <<time_range, df_short, df_medium, df_long, warnings, rendered,
                   shown, hidden, session, button, api, studyVars, runs>>

\* A check that warns and goes on
CheckEmptyNoStop ==
    /\ pc = "check_empty"
    /\ warnings' = IF IsEmpty(df) THEN Append(warnings, "No data found.") ELSE warnings
    /\ pc' = "overview"
    /\ UNCHANGED <<time_range, calls, df_short, df_medium, df_long, df, errors,
                   rendered, shown, hidden, uncaught, session, button, api, studyVars, runs>>

\* if df.empty: st.warning("No data found."); st.stop()  (app.py:191-193)
CheckEmpty ==
    /\ pc = "check_empty"
    /\ IF IsEmpty(df)
        THEN /\ warnings' = Append(warnings, "No data found.")
             /\ pc' = "stopped"
        ELSE /\ pc' = "overview"
             /\ UNCHANGED warnings
    /\ UNCHANGED <<time_range, calls, df_short, df_medium, df_long, df, errors,
                   rendered, shown, hidden, uncaught, session, button, api, studyVars, runs>>

\* d[col]: KeyError when the table has no such column
HasColumn(d, col) == col \in d.columns

\* 10a, 10b up to "Explicit Tracks Over Time" (app.py:197-308): charts of df
Charts ==
    /\ pc = "overview"
    /\ IF \A c \in Columns : HasColumn(df, c)
        THEN /\ rendered' = rendered \cup {"overview", "track_stats", "cultural", "release"}
             /\ pc' = "evolution"
             /\ UNCHANGED uncaught
        ELSE /\ pc' = "crashed"
             /\ uncaught' = "KeyError"
             /\ UNCHANGED rendered
    /\ UNCHANGED <<time_range, calls, df_short, df_medium, df_long, df, errors,
                   warnings, shown, hidden, session, button, api, studyVars, runs>>

\* Listening Evolution by Genre (app.py:310-318):
\* for each of df_short, df_medium, df_long: dataset["Genre"].value_counts()
GenreEvolution ==
    /\ pc = "evolution"
    /\ IF \A d \in {df_short, df_medium, df_long} : HasColumn(d, "Genre")
        THEN /\ rendered' = rendered \cup {"evolution"}
             /\ pc' = "charts_rest"
             /\ UNCHANGED uncaught
        ELSE /\ pc' = "crashed"
             /\ uncaught' = "KeyError"
             /\ UNCHANGED rendered
    /\ UNCHANGED <<time_range, calls, df_short, df_medium, df_long, df, errors,
                   warnings, shown, hidden, session, button, api, studyVars, runs>>

\* Artists & Albums, Advanced Analysis (app.py:320-401): charts of df
ChartsRest ==
    /\ pc = "charts_rest"
    /\ rendered' = rendered \cup {"artists_albums", "advanced"}
    /\ pc' = "diversity"
    /\ UNCHANGED <<time_range, calls, df_short, df_medium, df_long, df, errors,
                   warnings, shown, hidden, uncaught, session, button, api, studyVars, runs>>

(***************************************************************************)
(* 10c. Taste Diversity Score (app.py:410-423)                             *)
(***************************************************************************)
\* df[col], as the list of its values
Column(d, col) == [i \in 1..Len(d.rows) |-> d.rows[i][col]]

RECURSIVE UniqueFrom(_, _, _)
\* Series.unique(): the values in order of first appearance
UniqueFrom(col, i, seen) ==
    IF i > Len(col) THEN seen
    ELSE IF \E k \in 1..Len(seen) : seen[k] = col[i]
        THEN UniqueFrom(col, i + 1, seen)
    ELSE UniqueFrom(col, i + 1, Append(seen, col[i]))

Unique(col) == UniqueFrom(col, 1, <<>>)

RECURSIVE SumFrom(_, _)
SumFrom(col, i) == IF i > Len(col) THEN 0 ELSE col[i] + SumFrom(col, i + 1)

\* A mean that forgets to divide by the number of rows
MeanUndivided(col) == [num |-> SumFrom(col, 1), den |-> 1]

\* Series.mean(), as the fraction num / den
Mean(col) == [num |-> SumFrom(col, 1), den |-> Len(col)]

\* int(x) of the fraction x: truncation towards zero
IntOf(x) ==
    IF x.num >= 0 THEN x.num \div x.den ELSE -((-x.num) \div x.den)

\* diversity = len(unique Genre) * 2 + len(unique Language) * 2
\*             + len(unique Release Year) + (100 - mean Popularity)
\* as a fraction over the number of rows.  With at most 20 rows of integer
\* popularity the floating-point value truncates as the exact one does.
diversity(d) ==
    LET mean == Mean(Column(d, "Popularity"))
        counts == Len(Unique(Column(d, "Genre"))) * 2
                  + Len(Unique(Column(d, "Language"))) * 2
                  + Len(Unique(Column(d, "ReleaseYear")))
    IN  [num |-> counts * mean.den + (100 * mean.den - mean.num), den |-> mean.den]

\* A metric clamped to the scale it is shown on
diversity_metric_clamped(d) ==
    IF IntOf(diversity(d)) > 100 THEN 100 ELSE IntOf(diversity(d))

\* the number in  st.metric("Your Diversity Score", f"{int(diversity)} / 100")
diversity_metric(d) == IntOf(diversity(d))

DiversityScore ==
    /\ pc = "diversity"
    /\ shown' = <<diversity_metric(df)>>
    /\ rendered' = rendered \cup {"diversity"}
    /\ pc' = "playlist"
    /\ UNCHANGED <<time_range, calls, df_short, df_medium, df_long, df, errors,
                   warnings, hidden, uncaught, session, button, api, studyVars, runs>>

(***************************************************************************)
(* 10c. Playlist builder (app.py:426-473)                                  *)
(***************************************************************************)
\* sp.search for one row: raises, finds nothing, or finds a track
SearchOutcomes == {"error", "none", "hit"}
CallOutcomes == {"error", "ok"}

PlaylistUrl == "https://open.spotify.com/playlist/p1"

\* if "playlist_created" not in st.session_state: ...  (app.py:429-431)
SessionReady ==
    IF session.set THEN session
    ELSE [set |-> TRUE, playlist_created |-> FALSE, playlist_url |-> None]

\* the builder ends with these calls issued, this session state, the create
\* button drawn or not (st.button is reached when track_uris is not empty),
\* and either the exception exc or, when exc is None, the player shown if
\* there is a playlist (app.py:461-473)
BuilderEnds(searches, creates, adds, s, offered, exc) ==
    /\ api' = [search |-> api.search + searches,
               create |-> api.create + creates,
               add |-> api.add + adds]
    /\ session' = s
    /\ IF exc # None
        THEN /\ uncaught' = exc
             /\ pc' = "crashed"
             /\ rendered' = rendered \cup {"playlist_form"}
                    \cup (IF offered THEN {"playlist_button"} ELSE {})
        ELSE /\ UNCHANGED uncaught
             /\ pc' = "clustering"
             /\ rendered' = rendered
                    \cup (IF searches > 0 \/ ~s.playlist_created THEN {"playlist_form"} ELSE {})
                    \cup (IF offered THEN {"playlist_button"} ELSE {})
                    \cup (IF s.playlist_created /\ s.playlist_url # None
                            THEN {"player"} ELSE {})

PlaylistBuilder ==
    /\ pc = "playlist"
    /\ LET s1 == SessionReady
           n == Len(df.rows)
       IN  IF s1.playlist_created
            THEN BuilderEnds(0, 0, 0, s1, FALSE, None)
            ELSE \E outs \in [1..n -> SearchOutcomes], create \in CallOutcomes,
                    add \in CallOutcomes :
                 LET failed == {i \in 1..n : outs[i] = "error"}
                     first == CHOOSE i \in failed : \A j \in failed : i <= j
                     track_uris == {i \in 1..n : outs[i] = "hit"}
                 IN  IF failed # {}
                        THEN BuilderEnds(first, 0, 0, s1, FALSE, "SpotifyException")
                     ELSE IF ~(track_uris # {} /\ button)
                        THEN BuilderEnds(n, 0, 0, s1, track_uris # {}, None)
                     ELSE IF create = "error"
                        THEN BuilderEnds(n, 1, 0, s1, TRUE, "SpotifyException")
                     ELSE IF add = "error"
                        THEN BuilderEnds(n, 1, 1, s1, TRUE, "SpotifyException")
                     ELSE BuilderEnds(n, 1, 1,
                            [set |-> TRUE, playlist_created |-> TRUE,
                             playlist_url |-> PlaylistUrl], TRUE, None)
    /\ UNCHANGED <<time_range, calls, df_short, df_medium, df_long, df, errors,
                   warnings, shown, hidden, button, studyVars, runs>>

(***************************************************************************)
(* 10c. Clustering chart (app.py:476-494)                                  *)
(***************************************************************************)
\* KMeans(n_clusters=3, ...)
NClusters == 3

\* df["Cluster"] = labels
WithCluster(d, labels) ==
    [columns |-> d.columns \cup {"Cluster"},
     rows |-> [i \in 1..Len(d.rows) |-> ("Cluster" :> labels[i]) @@ d.rows[i]]]

\* KMeans.fit raises ValueError when there are fewer samples than clusters;
\* otherwise every row gets one of the labels 0..n_clusters-1
Clustering ==
    /\ pc = "clustering"
    /\ IF Len(df.rows) < NClusters
        THEN /\ uncaught' = "ValueError"
             /\ pc' = "crashed"
             /\ UNCHANGED <<df, rendered>>
        ELSE /\ \E labels \in [1..Len(df.rows) -> 0..(NClusters - 1)] :
                    df' = WithCluster(df, labels)
             /\ rendered' = rendered \cup {"clustering"}
             /\ pc' = "hidden_gems"
             /\ UNCHANGED uncaught
    /\ UNCHANGED <<time_range, calls, df_short, df_medium, df_long, errors,
                   warnings, shown, hidden, session, button, api, studyVars, runs>>

(***************************************************************************)
(* 10d. Hidden Gems tab (app.py:497-507)                                   *)
(***************************************************************************)
GemPopularity == 40

RECURSIVE FilterFrom(_, _, _)
\* df[mask]: the rows of the mask, in order
FilterFrom(rows, i, kept) ==
    IF i > Len(rows) THEN kept
    ELSE IF /\ rows[i].Popularity < GemPopularity
            /\ rows[i].Explicit = "Clean"
            /\ rows[i].Genre # "Unknown"
        THEN FilterFrom(rows, i + 1, Append(kept, rows[i]))
    ELSE FilterFrom(rows, i + 1, kept)

\* A filter that forgets the Genre condition
hidden_gems_any_genre(d) ==
    SelectSeq(d.rows, LAMBDA r : r.Popularity < GemPopularity /\ r.Explicit = "Clean")

hidden_gems(d) == FilterFrom(d.rows, 1, <<>>)

HiddenGems ==
    /\ pc = "hidden_gems"
    /\ hidden' = <<hidden_gems(df)>>
    /\ rendered' = rendered \cup {"hidden_gems"}
    /\ pc' = "done"
    /\ UNCHANGED <<time_range, calls, df_short, df_medium, df_long, df, errors,
                   warnings, shown, uncaught, session, button, api, studyVars, runs>>

NextLoad ==
    \/ Authenticate
    \/ SelectTimeRange
    \/ LoadShort
    \/ LoadMedium
    \/ LoadLong
    \/ LoadSelected
    \/ CheckEmpty
    \/ Charts
    \/ GenreEvolution
    \/ ChartsRest
    \/ DiversityScore
    \/ PlaylistBuilder
    \/ Clustering
    \/ HiddenGems

SpecLoad == InitLoad /\ [][NextLoad]_vars

(***************************************************************************)
(* A session: the script runs again, from its first line, after every      *)
(* interaction with a widget.  st.session_state is kept from run to run;   *)
(* everything else is built anew.  st.button reports a click only in the   *)
(* run that the click on it started, so only if the run before drew it.    *)
(***************************************************************************)
Rerun ==
    /\ pc \in Terminal
    /\ runs < MaxRuns
    /\ runs' = runs + 1
    /\ button' \in (IF "playlist_button" \in rendered THEN BOOLEAN ELSE {FALSE})
    /\ pc' = "auth"
    /\ time_range' = None
    /\ calls' = <<>>
    /\ df_short' = EmptyFrame
    /\ df_medium' = EmptyFrame
    /\ df_long' = EmptyFrame
    /\ df' = EmptyFrame
    /\ errors' = <<>>
    /\ warnings' = <<>>
    /\ rendered' = {}
    /\ shown' = <<>>
    /\ hidden' = <<>>
    /\ uncaught' = None
    /\ UNCHANGED <<session, api, studyVars>>

NextSession == NextLoad \/ Rerun

SpecSession == InitLoad /\ [][NextSession]_vars

(***************************************************************************)
(* The diversity score on tables of every shape.                           *)
(***************************************************************************)
Row(genre, language, year, popularity) ==
    [Track |-> "Song", Artist |-> "Artist", Album |-> "Album", Genre |-> genre,
     Language |-> language, Duration |-> 300, Popularity |-> popularity,
     Explicit |-> "Clean", ReleaseYear |-> year, Country |-> "Unknown"]

ScoreRows ==
    {Row("rock", "en", "2019", 0), Row("pop", "es", "2020", 100),
     Row("rock", "en", "2019", 35), Row("Unknown", "unknown", "2020", 33)}

\* 5 genres, 3 languages, 4 release years, mean popularity 60
ExampleFrame ==
    DataFrame(<<Row("rock", "en", "2017", 60), Row("pop", "es", "2018", 50),
                Row("jazz", "fr", "2019", 70), Row("folk", "en", "2020", 90),
                Row("soul", "en", "2020", 30)>>)

ScoreFrames ==
    {DataFrame(rows) : rows \in SeqsUpTo(ScoreRows, MaxScoreRows) \ {<<>>}}
    \cup {ExampleFrame}

InitScore ==
    /\ pc = "diversity"
    /\ time_range = None
    /\ calls = <<>>
    /\ df_short = EmptyFrame
    /\ df_medium = EmptyFrame
    /\ df_long = EmptyFrame
    /\ df \in ScoreFrames
    /\ errors = <<>>
    /\ warnings = <<>>
    /\ rendered = {}
    /\ shown = <<>>
    /\ hidden = <<>>
    /\ uncaught = None
    /\ session = NoSession
    /\ button = FALSE
    /\ api = NoApi
    /\ runs = 0
    /\ resp = NoResp
    /\ ret = NoRet
    /\ bio = NoBio
    /\ countries = <<>>

NextScore == DiversityScore

SpecScore == InitScore /\ [][NextScore]_vars

(***************************************************************************)
(* The Hidden Gems tab on the tables fetch_tracks builds.                  *)
(***************************************************************************)
MaxGemRows == 3      \* longest table handed to the Hidden Gems tab

ItemC == [name |-> "Song C", artist |-> "Artist C", album |-> "Album C",
          duration_ms |-> 200000, popularity |-> 40, explicit |-> FALSE,
          release_date |-> Date2020]
ItemD == [name |-> "Song D", artist |-> "Artist D", album |-> "Album D",
          duration_ms |-> 240000, popularity |-> 10, explicit |-> TRUE,
          release_date |-> Date2019]
ItemE == [name |-> "Song E", artist |-> "Artist E", album |-> "Album E",
          duration_ms |-> 150000, popularity |-> 0, explicit |-> FALSE,
          release_date |-> Date2019]

\* artist lookups that succeed: no "genres" key, no genre listed, genres
GemArtists == {a \in ArtistOutcomes : a.kind # "error"}

\* top-tracks responses of the length the tab is reached with (the
\* clustering before it needs NClusters rows)
GemResponses ==
    {TopItems(p) :
        p \in {q \in SeqsUpTo(Enrichments({ItemA, ItemB, ItemC, ItemD, ItemE},
                                          GemArtists, {"en"}, {NoBio}),
                              MaxGemRows) : Len(q) >= NClusters}}

\* the run is about to build the Hidden Gems tab: df is the table of the
\* selected window's fetch, with the labels of the clustering chart
InitGems ==
    /\ pc = "hidden_gems"
    /\ time_range = "short_term"
    /\ \E r \in GemResponses :
        /\ resp = r
        /\ ret = fetch_tracks("short_term", r)
        /\ df = WithCluster(fetch_tracks("short_term", r).frame,
                            [i \in 1..Len(r.items) |-> (i - 1) % NClusters])
    /\ calls = <<>>
    /\ df_short = EmptyFrame
    /\ df_medium = EmptyFrame
    /\ df_long = EmptyFrame
    /\ errors = <<>>
    /\ warnings = <<>>
    /\ rendered = {}
    /\ shown = <<>>
    /\ hidden = <<>>
    /\ uncaught = None
    /\ session = NoSession
    /\ button = FALSE
    /\ api = NoApi
    /\ runs = 0
    /\ bio = NoBio
    /\ countries = <<>>

NextGems == HiddenGems

SpecGems == InitGems /\ [][NextGems]_vars

(***************************************************************************)
(* Properties of fetch_tracks  (checked under SpecFetch)                   *)
(***************************************************************************)
Returned == pc = "fetch_returned"

N == Len(resp.items)

\* the i-th row of the returned table is the one built from the i-th item
BuiltFrom(row, it) ==
    /\ row.Track = it.name
    /\ row.Artist = it.artist
    /\ row.Album = it.album
    /\ row.Popularity = it.popularity
    /\ row.Explicit = (IF it.explicit THEN "Explicit" ELSE "Clean")
    /\ row.ReleaseYear = Take(it.release_date, 4)
    /\ row.Duration * 600 - 300 <= it.duration_ms
    /\ it.duration_ms < row.Duration * 600 + 300

\* C1: in fetch_tracks a failing enrichment sub-step (artist/genre lookup,
\* language detection, country resolution) only degrades that field of that
\* row to its sentinel; it never aborts the row or the batch, so the
\* returned table has a row for every track of the response.
C1_EnrichmentFailureIsLocal ==
    (Returned /\ resp.top = "ok") =>
        /\ Len(ret.frame.rows) = N
        /\ ret.errors = <<>>
        /\ \A i \in 1..N :
            /\ resp.env[i].artist.kind = "error" => ret.frame.rows[i].Genre = "Unknown"
            /\ resp.env[i].lang = "error" => ret.frame.rows[i].Language = "unknown"
            /\ resp.env[i].bio.kind = "error" => ret.frame.rows[i].Country = "Unknown"

\* C2: for every batch of n raw tracks, failing enrichment lookups
\* included, fetch_tracks returns exactly n rows and the i-th row is built
\* from the i-th item of the response.
C2_OneRowPerTrackInOrder ==
    (Returned /\ resp.top = "ok") =>
        /\ Len(ret.frame.rows) = N
        /\ \A i \in 1..N : BuiltFrom(ret.frame.rows[i], resp.items[i])

\* C3: fetch_tracks never raises to its caller; on zero items it returns the
\* empty table and reports nothing; when the top-tracks call fails it
\* reports that failure, with the exception's message, exactly once and
\* returns the empty table.
C3_FetchNeverRaises ==
    Returned =>
        /\ ~ret.raised
        /\ (resp.top = "ok" /\ resp.items = <<>>) =>
                (ret.frame = EmptyFrame /\ ret.errors = <<>>)
        /\ resp.top = "error" =>
                /\ ret.frame = EmptyFrame
                /\ Len(ret.errors) = 1
                /\ ret.errors[1][2] = resp.msg

C3_Witness ==
    /\ Returned
    /\ resp.top = "error"
    /\ ret.errors = << <<"Failed to fetch data: ", "token expired">> >>
    /\ IsEmpty(ret.frame)

\* the same response, detect succeeding on item i
DetectSucceeds(r, i) == [r EXCEPT !.env[i].lang = "en"]

\* C8: when language detection fails for a track, that row's Language is
\* exactly "unknown", the row is produced with its other fields as they are
\* when detection succeeds, and the other rows and the reported errors are
\* the same as when detection succeeds.
C8_LanguageFailureIsLocal ==
    (Returned /\ resp.top = "ok") =>
        \A i \in 1..N :
            resp.env[i].lang = "error" =>
                LET other == fetch_tracks("short_term", DetectSucceeds(resp, i))
                    rows == ret.frame.rows
                IN  /\ ~ret.raised
                    /\ ret.errors = other.errors
                    /\ Len(rows) = Len(other.frame.rows)
                    /\ ret.frame.columns = other.frame.columns
                    /\ i <= Len(rows) =>
                        /\ rows[i].Language = "unknown"
                        /\ rows[i] = [other.frame.rows[i] EXCEPT !.Language = "unknown"]
                    /\ \A j \in 1..Len(rows) : j # i => rows[j] = other.frame.rows[j]
                    /\ (\A j \in 1..N : resp.env[j].artist.kind # "error") =>
                            Len(rows) = N

C8_Witness ==
    /\ Returned
    /\ N = 2
    /\ resp.env[1].lang = "error"
    /\ resp.env[2].lang = "en"
    /\ Len(ret.frame.rows) = 2
    /\ ret.frame.rows[1].Language = "unknown"
    /\ ret.frame.rows[1].Genre = "rock"
    /\ ret.frame.rows[2].Language = "en"

(***************************************************************************)
(* Properties of get_artist_country_lastfm  (checked under SpecCountry)    *)
(***************************************************************************)
\* name occurs in text, letter case ignored
Occurs(text, name) ==
    \E off \in 0..(Len(text) - Len(name)) :
        \A k \in 1..Len(name) : LowerChar(text[off + k]) = LowerChar(name[k])

\* the biography the function scans, when it gets one
Biography == IF bio.kind = "text" THEN bio.content ELSE <<>>

\* C7: get_artist_country_lastfm never raises; when the fetch or the parsing
\* fails it returns "Unknown"; otherwise it returns the first country of the
\* canonical list, in list order, whose name occurs in the biography with
\* letter case ignored, wherever it occurs, and "Unknown" when none does;
\* calls on the same biography return the same result.
C7_CountryIsFirstInListOrder ==
    \A k \in 1..Len(countries) :
        /\ ~countries[k].raised
        /\ countries[k] = countries[1]
        /\ bio.kind \in {"error", "shape", "null"} => countries[k].value = "Unknown"
        /\ bio.kind \in {"text", "missing"} =>
            LET hits == {i \in 1..Len(CountryNames) : Occurs(Biography, CountryNames[i])}
            IN  IF hits = {} THEN countries[k].value = "Unknown"
                ELSE \E i \in hits :
                        /\ \A j \in hits : i <= j
                        /\ countries[k].value = CountryNames[i]

\* a biography where the second name of the list occurs before the first
C7_Witness ==
    /\ Len(countries) = 2
    /\ bio.kind = "text"
    /\ bio.content = <<"B", "a", "A", "b">>
    /\ countries[2].value = CountryNames[1]

(***************************************************************************)
(* Properties of the dashboard run  (checked under SpecLoad)               *)
(***************************************************************************)
\* positions after the fourth fetch of "Load Data" has returned
AfterLoad == {"check_empty", "overview", "evolution", "charts_rest", "diversity",
              "playlist", "clustering", "hidden_gems", "done"}

Loaded == pc \in AfterLoad \/ (pc \in Terminal /\ time_range # None)

SelectedEmpty == IsEmpty(df)

SomeWindowEmpty == \E d \in {df_short, df_medium, df_long} : IsEmpty(d)

Downstream == {"evolution", "diversity", "clustering", "hidden_gems"}

\* C4: a failed or empty fetch of one window halts only that window:
\* whenever the selected table is non-empty, every downstream stage (the
\* charts with the three-window genre comparison, the diversity score, the
\* clustering, the Hidden Gems table) runs to completion even if some of
\* the short/medium/long tables is the empty table of fetch_tracks.
C4_EmptyWindowHaltsOnlyItself ==
    (pc \in Terminal /\ Loaded /\ ~SelectedEmpty /\ SomeWindowEmpty) =>
        /\ pc = "done"
        /\ Downstream \subseteq rendered

\* df before the clustering chart adds its column
Fetched4 == [columns |-> df.columns \ {"Cluster"},
             rows |-> [i \in 1..Len(df.rows) |->
                        [f \in (DOMAIN df.rows[i]) \ {"Cluster"} |-> df.rows[i][f]]]]

\* C5: a load that passes authentication calls fetch_tracks exactly four
\* times, for short_term, medium_term, long_term and then the selected
\* window, and the selected table is the result of that fourth call, never
\* one of the three earlier results.
C5_FourFetchesInOrder ==
    /\ Len(calls) <= 4
    /\ \A i \in 1..Len(calls) :
            calls[i].window = <<"short_term", "medium_term", "long_term", time_range>>[i]
    /\ Loaded =>
        /\ Len(calls) = 4
        /\ df_short = calls[1].frame
        /\ df_medium = calls[2].frame
        /\ df_long = calls[3].frame
        /\ Fetched4 = calls[4].frame

\* the selected table differs from the table of the window of the same name
C5_Witness ==
    /\ pc = "overview"
    /\ time_range = "short_term"
    /\ Len(calls) = 4
    /\ Len(df.rows) = 1
    /\ Len(df_short.rows) = 2

\* C6: when the selected table is empty the load ends in the "no data"
\* state: after the warning nothing runs; no metric, no track search or
\* playlist call, no clustering, no Hidden Gems table, whatever the
\* short/medium/long tables hold.
C6_EmptySelectionIsTerminal ==
    (Loaded /\ SelectedEmpty /\ pc # "check_empty") =>
        /\ pc = "stopped"
        /\ ~ENABLED NextLoad
        /\ warnings = <<"No data found.">>
        /\ rendered = {}
        /\ shown = <<>>
        /\ api = NoApi
        /\ hidden = <<>>
        /\ uncaught = None
        /\ ~HasColumn(df, "Cluster")

C6_Witness ==
    /\ pc = "stopped"
    /\ Len(calls) = 4
    /\ SelectedEmpty
    /\ ~SomeWindowEmpty
    /\ warnings = <<"No data found.">>

\* the run has ended and the clustering chart was its last or an earlier block
ReachedClustering ==
    /\ pc \in Terminal
    /\ "diversity" \in rendered
    /\ uncaught # "SpotifyException"

\* C10: with 1 or 2 rows in the selected table the clustering fails with an
\* explicit error and attaches no Cluster labels, and the failure halts
\* only the clustering: the Hidden Gems table after it is still produced.
C10_ClusteringFailureHaltsOnlyItself ==
    (ReachedClustering /\ Len(df.rows) \in {1, 2}) =>
        /\ uncaught = "ValueError"
        /\ ~HasColumn(df, "Cluster")
        /\ "clustering" \notin rendered
        /\ hidden # <<>>
        /\ "hidden_gems" \in rendered

(***************************************************************************)
(* Properties of the diversity score  (checked under SpecScore)            *)
(***************************************************************************)
Values(col) == {df.rows[i][col] : i \in 1..Len(df.rows)}

RECURSIVE PopularityUpTo(_)
PopularityUpTo(i) == IF i = 0 THEN 0 ELSE df.rows[i].Popularity + PopularityUpTo(i - 1)

\* C9: the diversity score is 2*(distinct genres) + 2*(distinct languages)
\* + (distinct release years) + (100 - mean popularity); the dashboard
\* shows it truncated to an integer and not clamped, so it exceeds 100 for
\* some tables; 5 genres, 3 languages, 4 years and mean popularity 60 give
\* 60.
C9_DiversityFormula ==
    shown # <<>> =>
        LET n == Len(df.rows)
            score == shown[1]
            counts == 2 * Cardinality(Values("Genre")) + 2 * Cardinality(Values("Language"))
                      + Cardinality(Values("ReleaseYear"))
            \* n times the score
            scaled == (counts + 100) * n - PopularityUpTo(n)
        IN  /\ scaled >= 0
            /\ score * n <= scaled
            /\ scaled < (score + 1) * n
            /\ (/\ Cardinality(Values("Genre")) = 5
                /\ Cardinality(Values("Language")) = 3
                /\ Cardinality(Values("ReleaseYear")) = 4
                /\ PopularityUpTo(n) = 60 * n) => score = 60

C9_Witness ==
    /\ pc = "playlist"
    /\ Len(df.rows) = 3
    /\ shown # <<>>
    /\ shown[1] > 100

(***************************************************************************)
(* Properties of the Hidden Gems table  (checked under SpecGems)           *)
(***************************************************************************)
\* the rows of the selected table that are hidden gems
GemIndices ==
    {i \in 1..Len(df.rows) :
        /\ df.rows[i].Popularity < 40
        /\ df.rows[i].Explicit = "Clean"
        /\ df.rows[i].Genre # "Unknown"}

\* the artist lookup of item i lists no genre
NoGenreListed(i) ==
    resp.env[i].artist.kind = "nokey" \/ resp.env[i].artist.genres = <<>>

\* C11: the Hidden Gems table holds exactly the rows of the selected table
\* with Popularity < 40, Explicit = "Clean" and Genre # "Unknown" (in the
\* table's order); a track whose artist lookup lists no genres has Genre
\* "Unknown" and is not in the table, whatever its popularity.
C11_HiddenGemsExactly ==
    hidden # <<>> =>
        LET gems == hidden[1]
        IN  /\ Len(gems) = Cardinality(GemIndices)
            /\ \A i \in GemIndices :
                    gems[Cardinality({j \in GemIndices : j <= i})] = df.rows[i]
            /\ \A i \in 1..Len(df.rows) :
                    NoGenreListed(i) =>
                        /\ df.rows[i].Genre = "Unknown"
                        /\ i \notin GemIndices
                        /\ \A k \in 1..Len(gems) : gems[k].Track # df.rows[i].Track
                                                   \/ gems[k].Genre # "Unknown"

\* a clean track of popularity 0 without genres is left out, next to a gem
C11_Witness ==
    /\ pc = "done"
    /\ hidden # <<>>
    /\ Len(hidden[1]) = 1
    /\ hidden[1][1].Track = "Song A"
    /\ \E i \in 1..Len(df.rows) :
        /\ df.rows[i].Track = "Song E"
        /\ df.rows[i].Popularity = 0
        /\ NoGenreListed(i)
    /\ \E i \in 1..Len(df.rows) : df.rows[i].Popularity = 40 /\ df.rows[i].Genre = "rock"

(***************************************************************************)
(* Properties of the session  (checked under SpecSession)                  *)
(***************************************************************************)
\* the playlist builder issues no Spotify call in this step
NoPlaylistCall == api' = api

\* playlists made in the session: sp.playlist_add_items is called right
\* after each sp.user_playlist_create that returned one (app.py:446-453)
PlaylistsCreated == api.add

\* C12: the playlist_created / playlist_url session state prevents
\* duplicate creations: over any sequence of reruns and button clicks of a
\* session, runs with a failing playlist call included, the create-playlist
\* call is issued at most once (so no second playlist is ever created), and
\* once playlist_created is true no track search, playlist creation or
\* add-items call is issued any more.
C12_NoDuplicatePlaylist ==
    /\ [](PlaylistsCreated <= 1)
    /\ [][session.playlist_created => NoPlaylistCall]_vars

\* the part of C12 that holds
C12_NoCallOnceCreated == [][session.playlist_created => NoPlaylistCall]_vars

(***************************************************************************)
(* The sign of the diversity score  (checked under SpecScore)              *)
(***************************************************************************)
\* every Popularity of the table is in [0, 100], as the data model says
PopularityInRange(d) ==
    \A i \in 1..Len(d.rows) : d.rows[i].Popularity \in 0..100

\* C13 as claimed: there is a non-empty table allowed by the data model
\* (every Popularity in [0,100]) whose diversity score, as the dashboard
\* computes it, is below 0.  The tables looked at are the one of the run
\* and every table the score is handed in this model.
C13_ScoreCanGoNegative ==
    \E d \in ScoreFrames \cup {df} :
        /\ ~IsEmpty(d)
        /\ PopularityInRange(d)
        /\ (diversity(d).num < 0 \/ diversity_metric(d) < 0)

\* C13 as amended: for every non-empty table allowed by the data model the
\* diversity score is at least 5, so it is never negative.
C13_ScoreAtLeastFive ==
    (shown # <<>> /\ ~IsEmpty(df) /\ PopularityInRange(df)) =>
        /\ shown[1] >= 5
        /\ diversity(df).num >= 5 * diversity(df).den
        /\ diversity(df).den = Len(df.rows)

\* the lowest score: one genre, one language, one year, mean popularity 100
C13_Witness ==
    /\ pc = "playlist"
    /\ Len(df.rows) = 2
    /\ \A i \in 1..2 : df.rows[i].Popularity = 100
    /\ shown = <<5>>

====
